---- MODULE Spec2Model ----
(***************************************************************************)
(* Model of Generic_Factory.h: the self-registering factory.               *)
(*                                                                         *)
(* One family is one instantiation Generic_Factory<AbstractType,           *)
(* ConstructorArgs...>.  Each family owns one static pointer _registry_ to *)
(* a heap-allocated std::map<std::string, Constructor_t>.  The operations  *)
(* are the Factory_Registrar constructor and Generic_Factory::Construct;   *)
(* both reach the map through Get_Registry, which allocates it lazily.     *)
(* Execution is single-threaded: every operation is one atomic action.     *)
(***************************************************************************)
EXTENDS Integers, Sequences, FiniteSets, TLC

(* ---------------------------- bounds ---------------------------------- *)

\* Number of Factory_Registrar objects constructed in one run.
MaxRegistrars == 3

\* The same, in the specification that ranges over the abstract types.
MaxTraitRegistrars == 1

(* ---------------------------- inputs ---------------------------------- *)

\* The instantiations Generic_Factory<AbstractType, ConstructorArgs...>.
Families == {"Shape", "Vehicle"}

\* The std::string keys handed to Construct and to Factory_Registrar.
Keys == {"circle", "square"}

\* The argument tuples (ConstructorArgs...) handed to Construct.
Args == {0, 1}

\* The Constructor_t values (std::function<Pointer_T(ConstructorArgs...)>)
\* handed to Factory_Registrar.  "empty" is a std::function with no target.
Constructors == {"ctor1", "ctor2", "empty"}

\* The abstract types: what nested Pointer_Type a type declares (the
\* FACTORY_POINTER_TYPE macro) and whether the declaration is accessible
\* from CheckForType.
NoDeclaration == [Pointer_Type |-> "none", access |-> "public"]

TypeDescriptors ==
    {NoDeclaration}
    \cup {[Pointer_Type |-> p, access |-> "public"] :
             p \in {"Shared_Pointer", "Unique_Pointer", "Raw_Pointer"}}
    \cup {[Pointer_Type |-> "Unique_Pointer", access |-> "private"]}

\* The abstract types of the two families in the main specification.
DefaultTypes ==
    [F \in Families |->
        IF F = "Shape" THEN NoDeclaration
        ELSE [Pointer_Type |-> "Unique_Pointer", access |-> "public"]]

(* ------------------------ pointer traits ------------------------------ *)

\* Shared_Pointer<T>::type, Unique_Pointer<T>::type, Raw_Pointer<T>::type.
PointerTypeOf(policy) ==
    CASE policy = "Shared_Pointer" -> "std::shared_ptr"
      [] policy = "Unique_Pointer" -> "std::unique_ptr"
      [] policy = "Raw_Pointer"    -> "T*"

\* CheckForType<T>::value: test<T>(0) picks the overload taking
\* C::Pointer_Type* when that type can be named from CheckForType, and the
\* variadic overload otherwise (substitution failure, access included).
CheckForType(T) == T.Pointer_Type # "none" /\ T.access = "public"

\* Faulty variant: the primary template defaults to Raw_Pointer.
DefaultPolicy_Raw(T, b) ==
    IF b THEN T.Pointer_Type ELSE "Raw_Pointer"

\* Factory_Pointer_Traits_Impl<T, bool>::type.
Factory_Pointer_Traits_Impl(T, b) ==
    IF b THEN T.Pointer_Type ELSE "Shared_Pointer"

\* Factory_Pointer_Traits<T>::pointer_t.
Factory_Pointer_Traits(T) == Factory_Pointer_Traits_Impl(T, CheckForType(T))

\* Generic_Factory::Pointer_T.
Pointer_T(T) == PointerTypeOf(Factory_Pointer_Traits(T))

\* Whether a handle of this pointer type can be copied (std::unique_ptr has
\* a deleted copy constructor; std::shared_ptr and T* are copyable).
Copyable(ptr) == ptr # "std::unique_ptr"

(* --------------------------- values ----------------------------------- *)

nullptr == 0

\* A handle of pointer type ptr.  The target is empty for a null handle and
\* otherwise names the object: which constructor made it, from which
\* arguments.
NullHandle(ptr) == [type |-> ptr, target |-> <<>>]

Handle(ptr, c, a) == [type |-> ptr, target |-> <<c, a>>]

\* What a call yields: a returned handle, or an exception.
Returned(h) == [status |-> "returned", handle |-> <<h>>, what |-> ""]

Threw(what) == [status |-> "threw", handle |-> <<>>, what |-> what]

\* Constructor_t::operator()(a): the behaviours of the constructors the
\* registrars are given.  Both ctor1 and ctor2 make an object from argument
\* 0; from argument 1, ctor1 throws and ctor2 returns a null handle.  The
\* empty std::function throws std::bad_function_call.
Invoke(c, a, ptr) ==
    CASE c = "ctor1" -> IF a = 1 THEN Threw("ctor_failure")
                        ELSE Returned(Handle(ptr, c, a))
      [] c = "ctor2" -> IF a = 1 THEN Returned(NullHandle(ptr))
                        ELSE Returned(Handle(ptr, c, a))
      [] c = "empty" -> Threw("std::bad_function_call")

(* --------------------------- memory ----------------------------------- *)

\* A Registry_t with no entries.
EmptyMap == [k \in {} |-> "empty"]

\* Memory: reg[F] is the static _registry_ of family F (nullptr or the
\* address of a Registry_t); heap[p] is the Registry_t allocated at p, a
\* function from the keys it holds to their constructors.
InitMem == [reg |-> [F \in Families |-> nullptr], heap |-> <<>>]

\* The mapping family F can reach: empty while nothing is allocated.
MapOf(mem, F) ==
    IF mem.reg[F] = nullptr THEN EmptyMap ELSE mem.heap[mem.reg[F]]

\* Faulty variant: no null test, a new Registry_t on every call.
Get_Registry_AlwaysNew(F, mem) ==
    LET p == Len(mem.heap) + 1
    IN  [mem |-> [reg  |-> [mem.reg EXCEPT ![F] = p],
                  heap |-> Append(mem.heap, EmptyMap)],
         ret |-> p]

\* Faulty variant: one _registry_ for all the families.
Get_Registry_Shared(F, mem) ==
    LET G == "Shape"
    IN  IF mem.reg[G] = nullptr
        THEN LET p == Len(mem.heap) + 1
             IN  [mem |-> [reg  |-> [mem.reg EXCEPT ![G] = p],
                           heap |-> Append(mem.heap, EmptyMap)],
                  ret |-> p]
        ELSE [mem |-> mem, ret |-> mem.reg[G]]

\* Generic_Factory<...>::Get_Registry(): allocate on a null pointer, return
\* the pointer.  Yields the memory after the call and the returned pointer.
Get_Registry(F, mem) ==
    IF mem.reg[F] = nullptr
    THEN LET p == Len(mem.heap) + 1
         IN  [mem |-> [reg  |-> [mem.reg EXCEPT ![F] = p],
                       heap |-> Append(mem.heap, EmptyMap)],
              ret |-> p]
    ELSE [mem |-> mem, ret |-> mem.reg[F]]

\* std::map iterators: the container and a position in it.
cend(p) == <<p, "end">>

\* Faulty variant: the lookup never finds a key.
find_NeverFound(heap, p, key) == <<p, "end">>

\* Faulty variant: the lookup yields some entry when the key is absent (as
\* lower_bound does).
find_Nearest(heap, p, key) ==
    IF key \in DOMAIN heap[p] THEN <<p, key>>
    ELSE IF DOMAIN heap[p] # {} THEN <<p, CHOOSE k \in DOMAIN heap[p] : TRUE>>
    ELSE <<p, "end">>

\* std::map::find on the Registry_t at p.
find(heap, p, key) ==
    IF key \in DOMAIN heap[p] THEN <<p, key>> ELSE <<p, "end">>

\* std::map::insert: adds the pair unless the key is present.
insert(m, k, c) ==
    IF k \in DOMAIN m THEN m
    ELSE [x \in DOMAIN m \cup {k} |-> IF x = k THEN c ELSE m[x]]

(* -------------------------- operations -------------------------------- *)

\* Faulty variant: assigns the constructor whether or not the key is there.
Factory_Registrar_Overwrite(F, designator, object_constructor, mem) ==
    LET g        == Get_Registry(F, mem)
        registry == g.ret
        m        == g.mem.heap[registry]
    IN  [mem |-> [g.mem EXCEPT !.heap[registry] =
                      [x \in DOMAIN m \cup {designator} |->
                          IF x = designator THEN object_constructor ELSE m[x]]],
         result |-> Returned(NullHandle("void"))]

\* Faulty variant: the test of find() against cend() is inverted.
Factory_Registrar_Inverted(F, designator, object_constructor, mem) ==
    LET g        == Get_Registry(F, mem)
        registry == g.ret
        m        == g.mem.heap[registry]
    IN  IF find(g.mem.heap, registry, designator) # cend(registry)
        THEN [mem |-> [g.mem EXCEPT !.heap[registry] =
                           insert(m, designator, object_constructor)],
              result |-> Returned(NullHandle("void"))]
        ELSE [mem |-> g.mem, result |-> Returned(NullHandle("void"))]

\* Faulty variant: inserts only into an empty registry.
Factory_Registrar_IfEmpty(F, designator, object_constructor, mem) ==
    LET g        == Get_Registry(F, mem)
        registry == g.ret
        m        == g.mem.heap[registry]
    IN  IF DOMAIN m = {}
        THEN [mem |-> [g.mem EXCEPT !.heap[registry] =
                           insert(m, designator, object_constructor)],
              result |-> Returned(NullHandle("void"))]
        ELSE [mem |-> g.mem, result |-> Returned(NullHandle("void"))]

\* Factory_Registrar::Factory_Registrar(designator, object_constructor).
\* Yields the memory after the call and how the call ended.
Factory_Registrar(F, designator, object_constructor, mem) ==
    LET g        == Get_Registry(F, mem)
        registry == g.ret
        m        == g.mem.heap[registry]
    IN  IF find(g.mem.heap, registry, designator) = cend(registry)
        THEN [mem |-> [g.mem EXCEPT !.heap[registry] =
                           insert(m, designator, object_constructor)],
              result |-> Returned(NullHandle("void"))]
        ELSE [mem |-> g.mem, result |-> Returned(NullHandle("void"))]

\* Faulty variant: looks the key up with operator[], which inserts an
\* empty std::function for an absent key.
Construct_Subscript(F, T, key, arguments, mem) ==
    LET g  == Get_Registry(F, mem)
        m  == g.mem.heap[g.ret]
        m2 == IF key \in DOMAIN m THEN m
              ELSE [x \in DOMAIN m \cup {key} |->
                       IF x = key THEN "empty" ELSE m[x]]
    IN  [mem     |-> [g.mem EXCEPT !.heap[g.ret] = m2],
         result  |-> Invoke(m2[key], arguments, Pointer_T(T)),
         invoked |-> << <<m2[key], arguments>> >>]

\* Faulty variant: catches what the constructor throws and returns nullptr.
Construct_CatchAll(F, T, key, arguments, mem) ==
    LET g1 == Get_Registry(F, mem)
        it == find(g1.mem.heap, g1.ret, key)
        g2 == Get_Registry(F, g1.mem)
    IN  IF it = cend(g2.ret)
        THEN [mem     |-> g2.mem,
              result  |-> Returned(NullHandle(Pointer_T(T))),
              invoked |-> <<>>]
        ELSE LET constructor == g1.mem.heap[it[1]][it[2]]
                 r           == Invoke(constructor, arguments, Pointer_T(T))
             IN  [mem     |-> g2.mem,
                  result  |-> IF r.status = "threw"
                              THEN Returned(NullHandle(Pointer_T(T)))
                              ELSE r,
                  invoked |-> << <<constructor, arguments>> >>]

\* Generic_Factory::Construct(key, arguments...) of family F whose abstract
\* type is T.  Yields the memory after the call, what the call yields, and
\* the constructor invocations it made, in order.  The iterator comes from
\* the first Get_Registry() call and cend() from the second; the constructor
\* invoked is a copy of the stored one.
Construct(F, T, key, arguments, mem) ==
    LET g1 == Get_Registry(F, mem)
        it == find(g1.mem.heap, g1.ret, key)
        g2 == Get_Registry(F, g1.mem)
    IN  IF it = cend(g2.ret)
        THEN [mem     |-> g2.mem,
              result  |-> Returned(NullHandle(Pointer_T(T))),
              invoked |-> <<>>]
        ELSE LET constructor == g1.mem.heap[it[1]][it[2]]
             IN  [mem     |-> g2.mem,
                  result  |-> Invoke(constructor, arguments, Pointer_T(T)),
                  invoked |-> << <<constructor, arguments>> >>]

(* ----------------------------- state ---------------------------------- *)

VARIABLES
    _registry_,    \* per family: the static Registry_t* _registry_
    heap,          \* the Registry_t objects allocated with new
    AbstractType,  \* per family: the abstract type's descriptor
    registrars,    \* per family and key: the constructors of the
                   \* Factory_Registrar objects constructed, in order
    last           \* the last call made and what it yielded

vars == <<_registry_, heap, AbstractType, registrars, last>>

Mem == [reg |-> _registry_, heap |-> heap]

\* The mapping of family F in the current state.
Registry(F) == MapOf(Mem, F)

\* How many Factory_Registrar objects exist.
RECURSIVE CountIn(_, _)
CountIn(r, S) ==
    IF S = {} THEN 0
    ELSE LET x == CHOOSE y \in S : TRUE
         IN  Len(r[x[1]][x[2]]) + CountIn(r, S \ {x})

NumRegistrars == CountIn(registrars, Families \X Keys)

NoCall ==
    [op |-> "none", family |-> "", key |-> "", arg |-> 0, ctor |-> "",
     result |-> Returned(NullHandle("void")), invoked |-> <<>>]

InitCommon ==
    /\ _registry_ = InitMem.reg
    /\ heap = InitMem.heap
    /\ registrars = [F \in Families |-> [k \in Keys |-> <<>>]]
    /\ last = NoCall

Init ==
    /\ InitCommon
    /\ AbstractType = DefaultTypes

InitTraits ==
    /\ InitCommon
    /\ AbstractType \in [Families -> TypeDescriptors]

\* A translation unit's static Factory_Registrar is constructed.
RegistrarStep(F, designator, object_constructor) ==
    LET r == Factory_Registrar(F, designator, object_constructor, Mem)
    IN  /\ _registry_' = r.mem.reg
        /\ heap' = r.mem.heap
        /\ registrars' = [registrars EXCEPT ![F][designator] =
                             Append(@, object_constructor)]
        /\ last' = [op |-> "Factory_Registrar", family |-> F,
                    key |-> designator, arg |-> 0,
                    ctor |-> object_constructor,
                    result |-> r.result, invoked |-> <<>>]
        /\ UNCHANGED AbstractType

\* Caller code calls Generic_Factory<...>::Construct.
ConstructStep(F, key, arguments) ==
    LET r == Construct(F, AbstractType[F], key, arguments, Mem)
    IN  /\ _registry_' = r.mem.reg
        /\ heap' = r.mem.heap
        /\ last' = [op |-> "Construct", family |-> F, key |-> key,
                    arg |-> arguments, ctor |-> "",
                    result |-> r.result, invoked |-> r.invoked]
        /\ UNCHANGED <<AbstractType, registrars>>

Next ==
    \/ \E F \in Families, k \in Keys, c \in Constructors :
          /\ NumRegistrars < MaxRegistrars
          /\ RegistrarStep(F, k, c)
    \/ \E F \in Families, k \in Keys, a \in Args :
          ConstructStep(F, k, a)

NextTraits ==
    \/ \E F \in Families, k \in Keys, c \in Constructors :
          /\ NumRegistrars < MaxTraitRegistrars
          /\ RegistrarStep(F, k, c)
    \/ \E F \in Families, k \in Keys, a \in Args :
          ConstructStep(F, k, a)

Spec == Init /\ [][Next]_vars

SpecTraits == InitTraits /\ [][NextTraits]_vars

(* ------------------- helpers of the properties ------------------------ *)

\* The pointer type of family F's handles.
PtrOf(F) == Pointer_T(AbstractType[F])

\* The last call was Construct(k, a) of family F.
LastConstruct(F, k, a) ==
    /\ last.op = "Construct"
    /\ last.family = F
    /\ last.key = k
    /\ last.arg = a

\* All the orders in which the elements of S can be taken.
Orders(S) ==
    {s \in [1..Cardinality(S) -> S] :
        \A i, j \in 1..Cardinality(S) : i # j => s[i] # s[j]}

\* The memory after constructing, from memory mem, the registrars of family
\* F given as a sequence of <<key, constructor>> pairs.
RECURSIVE RegisterAll(_, _, _)
RegisterAll(F, rs, mem) ==
    IF rs = <<>> THEN mem
    ELSE RegisterAll(F, Tail(rs),
                     Factory_Registrar(F, rs[1][1], rs[1][2], mem).mem)

\* The registrars of family F with key k, as <<key, constructor>> pairs.
KeyRegistrars(F, k) ==
    [i \in 1..Len(registrars[F][k]) |-> <<k, registrars[F][k][i]>>]

\* The registrars of family F, key by key in the given order of the keys.
RECURSIVE FamilyRegistrars(_, _)
FamilyRegistrars(F, order) ==
    IF order = <<>> THEN <<>>
    ELSE KeyRegistrars(F, order[1]) \o FamilyRegistrars(F, Tail(order))

\* What Construct(k, a) of family F yields from memory mem.
ResultIn(F, k, a, mem) == Construct(F, AbstractType[F], k, a, mem).result

(* ---------------------------- properties ------------------------------ *)

\* C1. First registration wins: a key for which registrars were constructed
\* is bound to the constructor of the first of them, whatever constructors
\* the later ones carried, and a Construct call with that key invokes that
\* first constructor and no other.
FirstRegistrationWins ==
    \A F \in Families, k \in Keys :
        registrars[F][k] # <<>> =>
            /\ k \in DOMAIN Registry(F)
            /\ Registry(F)[k] = registrars[F][k][1]
            /\ \A a \in Args :
                  LastConstruct(F, k, a) =>
                      /\ last.invoked = << <<registrars[F][k][1], a>> >>
                      /\ last.result = Invoke(registrars[F][k][1], a, PtrOf(F))

\* C1 witness: a key was registered, then registered again with another
\* constructor, and then constructed.
FirstRegistrationWinsWitness ==
    \E F \in Families, k \in Keys :
        /\ Len(registrars[F][k]) >= 2
        /\ registrars[F][k][1] # registrars[F][k][2]
        /\ LastConstruct(F, k, 0)
        /\ last.result.status = "returned"

\* C2. Lookup correctness: a Construct call whose key is in the registry
\* invokes the constructor bound to the key exactly once, with the arguments
\* of the call, and yields exactly what that invocation yields: its handle,
\* or the exception it throws.
LookupCorrectness ==
    \A F \in Families, k \in Keys, a \in Args :
        (LastConstruct(F, k, a) /\ k \in DOMAIN Registry(F)) =>
            /\ last.invoked = << <<Registry(F)[k], a>> >>
            /\ last.result = Invoke(Registry(F)[k], a, PtrOf(F))

\* C2 witness: a registered constructor threw and Construct threw the same.
LookupCorrectnessWitness ==
    \E F \in Families, k \in Keys :
        /\ LastConstruct(F, k, 1)
        /\ k \in DOMAIN Registry(F)
        /\ Registry(F)[k] = "ctor1"
        /\ last.result = Threw("ctor_failure")

\* C3. Absence: a Construct call with a key for which no registrar of the
\* family was ever constructed returns the null handle, invokes no
\* constructor and throws nothing, also when nothing touched the family's
\* registry before the call.
Absence ==
    \A F \in Families, k \in Keys, a \in Args :
        (LastConstruct(F, k, a) /\ registrars[F][k] = <<>>) =>
            /\ last.result = Returned(NullHandle(PtrOf(F)))
            /\ last.invoked = <<>>

\* C3 witness: Construct ran before any registrar of any family, and so it
\* was what created the registry.
AbsenceWitness ==
    /\ NumRegistrars = 0
    /\ last.op = "Construct"
    /\ _registry_[last.family] # nullptr
    /\ Registry(last.family) = EmptyMap

\* C4 as claimed: Construct returns the null handle only when the key is
\* not registered.
NullOnlyWhenUnregistered ==
    \A F \in Families, k \in Keys, a \in Args :
        (LastConstruct(F, k, a) /\ last.result = Returned(NullHandle(PtrOf(F))))
            => k \notin DOMAIN Registry(F)

\* C4 amended: Construct returns the null handle only when the key is not
\* registered or the constructor registered for the key itself returns a
\* null handle for the arguments.
NullOnlyWhenUnregisteredOrNullConstructed ==
    \A F \in Families, k \in Keys, a \in Args :
        (LastConstruct(F, k, a) /\ last.result = Returned(NullHandle(PtrOf(F))))
            => \/ k \notin DOMAIN Registry(F)
               \/ Invoke(Registry(F)[k], a, PtrOf(F))
                      = Returned(NullHandle(PtrOf(F)))

\* C4 witness: a registered constructor returned a null handle and so did
\* Construct.
NullConstructedWitness ==
    \E F \in Families, k \in Keys :
        /\ LastConstruct(F, k, 1)
        /\ k \in DOMAIN Registry(F)
        /\ Registry(F)[k] = "ctor2"
        /\ last.result = Returned(NullHandle(PtrOf(F)))

\* C5. Family isolation: whatever was registered in the other families and
\* however the calls interleaved, the registry of a family holds what its
\* own registrars alone would have put there, and Construct yields in it
\* what it would yield had only the family's own registrars been constructed.
FamilyIsolation ==
    \A F \in Families :
        \A order \in Orders(Keys) :
            LET alone == RegisterAll(F, FamilyRegistrars(F, order), InitMem)
            IN  /\ MapOf(alone, F) = Registry(F)
                /\ \A k \in Keys, a \in Args :
                      /\ ResultIn(F, k, a, Mem) = ResultIn(F, k, a, alone)
                      /\ LastConstruct(F, k, a) =>
                             last.result = ResultIn(F, k, a, alone)

\* C5 witness: one key is registered in one family only, and Construct of
\* that key in the other family found nothing.
FamilyIsolationWitness ==
    \E F, G \in Families, k \in Keys :
        /\ F # G
        /\ registrars[F][k] # <<>>
        /\ registrars[G][k] = <<>>
        /\ registrars[G] # [x \in Keys |-> <<>>]
        /\ LastConstruct(G, k, 0)
        /\ last.result = Returned(NullHandle(PtrOf(G)))

\* C6. Lazy singleton: a step allocates a registry for a family exactly when
\* the family's pointer is null, and the new registry holds nothing but what
\* the step itself registered; a pointer that is set never changes again,
\* and the registry it points to keeps every entry it has.
LazySingleton ==
    [][\A F \in Families :
          /\ _registry_[F] # nullptr =>
                /\ _registry_'[F] = _registry_[F]
                /\ \A k \in DOMAIN heap[_registry_[F]] :
                      /\ k \in DOMAIN heap'[_registry_[F]]
                      /\ heap'[_registry_[F]][k] = heap[_registry_[F]][k]
          /\ (_registry_[F] = nullptr /\ _registry_'[F] # nullptr) =>
                /\ _registry_'[F] = Len(heap) + 1
                /\ Len(heap') = Len(heap) + 1
                /\ \/ /\ last'.op = "Construct"
                      /\ heap'[_registry_'[F]] = EmptyMap
                   \/ /\ last'.op = "Factory_Registrar"
                      /\ DOMAIN heap'[_registry_'[F]] = {last'.key}
                      /\ heap'[_registry_'[F]][last'.key] = last'.ctor
          /\ Len(heap') # Len(heap) =>
                \E G \in Families : _registry_[G] = nullptr /\ last'.family = G
      ]_vars

\* C6 witness: one family's registry was created by a Construct call and the
\* other's by a registrar, and both were used again afterwards.
LazySingletonWitness ==
    \E F, G \in Families :
        /\ _registry_[F] = 1
        /\ registrars[F] = [x \in Keys |-> <<>>]
        /\ _registry_[G] = 2
        /\ NumRegistrars >= 2
        /\ last.op = "Construct"
        /\ last.family = F

\* C7. Duplicate registration is a silent no-op: constructing a registrar
\* returns normally; with a key already in the family's registry it leaves
\* every family's registry as it was, and with an absent key it adds that
\* key with that constructor and changes nothing else.
DuplicateRegistrationNoOp ==
    [][\A F \in Families, k \in Keys :
          registrars'[F][k] # registrars[F][k] =>
              /\ last'.result = Returned(NullHandle("void"))
              /\ \A G \in Families \ {F} : MapOf(Mem, G)' = MapOf(Mem, G)
              /\ IF k \in DOMAIN MapOf(Mem, F)
                 THEN MapOf(Mem, F)' = MapOf(Mem, F)
                 ELSE /\ DOMAIN MapOf(Mem, F)' = DOMAIN MapOf(Mem, F) \cup {k}
                      /\ MapOf(Mem, F)'[k] = last'.ctor
                      /\ \A x \in DOMAIN MapOf(Mem, F) :
                            MapOf(Mem, F)'[x] = MapOf(Mem, F)[x]
      ]_vars

\* C7 witness: a registrar was constructed with a key that was already
\* bound to another constructor, in a registry that holds both keys.
DuplicateRegistrationWitness ==
    \E F \in Families, k \in Keys :
        /\ last.op = "Factory_Registrar"
        /\ last.family = F
        /\ last.key = k
        /\ Len(registrars[F][k]) >= 2
        /\ Registry(F)[k] # last.ctor
        /\ DOMAIN Registry(F) = Keys

\* C8. Registration order is irrelevant for distinct keys: when the
\* registrars of a family have pairwise different keys, constructing them in
\* any order gives the registry the family has, and so the same Construct
\* result for every key and argument.
OrderIrrelevantForDistinctKeys ==
    \A F \in Families :
        (\A k \in Keys : Len(registrars[F][k]) <= 1) =>
            LET R == {<<k, registrars[F][k][1]>> :
                         k \in {x \in Keys : registrars[F][x] # <<>>}}
            IN  \A order \in Orders(R) :
                    LET m == RegisterAll(F, order, InitMem)
                    IN  /\ MapOf(m, F) = Registry(F)
                        /\ \A k \in Keys, a \in Args :
                              ResultIn(F, k, a, m) = ResultIn(F, k, a, Mem)

\* C8 witness: a family has one registrar for each key.
OrderIrrelevantWitness ==
    \E F \in Families :
        /\ \A k \in Keys : Len(registrars[F][k]) = 1
        /\ DOMAIN Registry(F) = Keys

\* C9 as claimed: the handles of a family are of the kind the abstract
\* type's nested Pointer_Type declaration names when the type has one, and
\* shared when it has none; so a type declaring Unique_Pointer yields handles
\* that cannot be copied.
OwnershipFollowsDeclaration ==
    \A F \in Families :
        LET T == AbstractType[F]
            kind == IF T.Pointer_Type # "none"
                    THEN PointerTypeOf(T.Pointer_Type)
                    ELSE "std::shared_ptr"
        IN  /\ Pointer_T(T) = kind
            /\ (last.op = "Construct" /\ last.family = F
                    /\ last.result.status = "returned") =>
                   /\ last.result.handle[1].type = kind
                   /\ T.Pointer_Type = "Unique_Pointer" =>
                          ~Copyable(last.result.handle[1].type)

\* C9 amended: the handles of a family are of the kind the abstract type's
\* nested Pointer_Type declaration names when that declaration is accessible
\* (public), and shared when the type declares none or declares it
\* inaccessibly; so handles are shared for a type without a declaration, and
\* cannot be copied for a type publicly declaring Unique_Pointer.
OwnershipPolicyResolution ==
    \A F \in Families :
        LET T == AbstractType[F]
            exposed == T.Pointer_Type # "none" /\ T.access = "public"
            kind == IF exposed THEN PointerTypeOf(T.Pointer_Type)
                    ELSE "std::shared_ptr"
        IN  /\ Pointer_T(T) = kind
            /\ (last.op = "Construct" /\ last.family = F
                    /\ last.result.status = "returned") =>
                   /\ last.result.handle[1].type = kind
                   /\ T.Pointer_Type = "none" =>
                          last.result.handle[1].type = "std::shared_ptr"
                   /\ (T.Pointer_Type = "Unique_Pointer" /\ exposed) =>
                          ~Copyable(last.result.handle[1].type)
                   /\ ~exposed => Copyable(last.result.handle[1].type)

\* C9 witness: one family's type declares Unique_Pointer publicly, the
\* other's declares it privately, and Construct returned a shared, copyable
\* handle to an object in the family whose declaration is private.
OwnershipPolicyWitness ==
    \E F, G \in Families :
        /\ AbstractType[F] = [Pointer_Type |-> "Unique_Pointer",
                              access |-> "public"]
        /\ AbstractType[G] = [Pointer_Type |-> "Unique_Pointer",
                              access |-> "private"]
        /\ last.op = "Construct"
        /\ last.family = G
        /\ last.result.status = "returned"
        /\ last.result.handle[1].target # <<>>
        /\ last.result.handle[1].type = "std::shared_ptr"

\* C10. The registry only grows and Construct is read-only on it: in every
\* step each key a registry holds stays in it, bound to the same
\* constructor; a Construct step leaves every registry as it was; a registry
\* changes only in a step that constructs a Factory_Registrar.
GrowOnlyAndConstructReadOnly ==
    [][/\ \A F \in Families :
             \A k \in DOMAIN MapOf(Mem, F) :
                 /\ k \in DOMAIN MapOf(Mem, F)'
                 /\ MapOf(Mem, F)'[k] = MapOf(Mem, F)[k]
       /\ registrars' = registrars =>
             \A F \in Families : MapOf(Mem, F)' = MapOf(Mem, F)
       /\ (\E F \in Families : MapOf(Mem, F)' # MapOf(Mem, F)) =>
             /\ last'.op = "Factory_Registrar"
             /\ NumRegistrars' = NumRegistrars + 1
      ]_vars

\* C10 witness: a Construct call ended in the exception of an empty
\* std::function in a registry holding one key, after a Construct call
\* created the other family's registry, which is still empty.
GrowOnlyWitness ==
    \E F \in Families, k \in Keys :
        /\ LastConstruct(F, k, 0)
        /\ last.result = Threw("std::bad_function_call")
        /\ DOMAIN Registry(F) = {k}
        /\ \E G \in Families \ {F} :
              _registry_[G] # nullptr /\ Registry(G) = EmptyMap

====
